---- MODULE Spec2Model ----
(***************************************************************************)
(* Scratch-space pooling (include/scratch.h: ScratchStoreManager over a    *)
(* ConcurrentQueue of pre-constructed scratch objects) and the aligned     *)
(* in-memory vector store (InMemDataStore) of DiskANN.                     *)
(***************************************************************************)
EXTENDS Naturals, Integers, Sequences, FiniteSets, TLC

\* ---------------------------------------------------------------- bounds
NumObjs == 2             \* K: scratch objects the pool is pre-warmed with
NumWorkers == NumObjs + 1  \* one worker more than objects, so that the pool runs dry
MaxFill == 1             \* most entries a holder puts into a scratch object
MaxPts == 1              \* largest max_pts a store is constructed with
MaxFilePts == MaxPts + 1  \* largest num_points recorded in a vector file
MaxVal == 2              \* vector components range over 0..MaxVal
MaxDim == 9              \* largest dim a store of vectors only is built with

\* ------------------------------------------------------------- constants
nullptr == 0             \* the null sentinel pop() returns on an empty queue
MainThread == 0          \* the thread that shuts the pool down
MAX_N_CMPS == 16384          \* #define MAX_N_CMPS 16384
MAX_N_SECTOR_READS == 128    \* #define MAX_N_SECTOR_READS 128

Workers == 1..NumWorkers
Threads == {MainThread} \cup Workers
Objs == 1..NumObjs

VARIABLES
    q,          \* ConcurrentQueue<T*>::q, the pooled object pointers
    waiting,    \* threads suspended on the queue's push condition variable
    pc,         \* per thread: position in constructor / use / destructor / destroy
    _scratch,   \* per thread: ScratchStoreManager::_scratch of its manager
    local,      \* the local `scratch` of destroy() in the main thread
    fill,       \* per object: number of entries in pool/visited/best_l_nodes
    deleted,    \* per object: number of times `delete` was applied to it
    waited,     \* per thread: the lease in use was obtained after wait_for_push_notify
    exc,        \* per thread: the scope of its manager is being left by an exception
    quiet       \* no lease outstanding or pending since destroy() was invoked

poolVars == <<q, waiting, pc, _scratch, local, fill, deleted, waited, exc, quiet>>

VARIABLES
    _dim,           \* AbstractDataStore::_dim
    _max_points,    \* AbstractDataStore::_max_points, read by get_max_points()
    _aligned_dim,   \* InMemDataStore::_aligned_dim
    _data,          \* the block _data points to: offset -> component
    frees,          \* number of aligned_free calls on the block _data points to
    _empty_slots,   \* InMemDataStore::_empty_slots
    ub,             \* an access to or a release of a released block went through
    st,             \* "ready", "copying" (inside load_data), "destroyed", "crashed"
    last            \* the last call on the store, its argument and its outcome

storeVars == <<_dim, _max_points, _aligned_dim, _data, frees, _empty_slots, ub, st, last>>

VARIABLES
    coord_idx,      \* per object: SSDQueryScratch::coord_idx
    sector_idx,     \* per object: SSDQueryScratch::sector_idx
    n_cmps,         \* per thread: coordinate sub-buffers its search has claimed
    n_reads,        \* per thread: sector sub-buffers its search has claimed
    advanced        \* objects whose cursors a holder has advanced at some time

ssdVars == <<coord_idx, sector_idx, n_cmps, n_reads, advanced>>

vars == <<poolVars, ssdVars, storeVars>>

\* ------------------------------------------------- ConcurrentQueue<T*>
\* pop(): non-blocking; the front element, or the null sentinel when empty
pop_result(queue) == IF queue = <<>> THEN nullptr ELSE Head(queue)

pop_rest(queue) == IF queue = <<>> THEN queue ELSE Tail(queue)

\* push(obj): insertion at the back
push(queue, o) == Append(queue, o)

\* empty()
empty(queue) == queue = <<>>

\* T::clear(): empties pool, visited and best_l_nodes of the object
clear(f, o) == [f EXCEPT ![o] = 0]

\* SSDQueryScratch::reset(), to which SSDThreadData::clear() delegates:
\* the cursor of object o back to zero
reset(idx, o) == [idx EXCEPT ![o] = 0]

\* ------------------------------------------------------------- helpers
SeqToSet(s) == {s[i] : i \in 1..Len(s)}

\* pcs at which a thread's manager owns the object it popped: from the
\* successful pop of the constructor up to the push of the destructor
HoldingPcs == {"use", "destroy_check", "destroy_pop", "destroy_wait",
               "destroy_blocked", "destroy_delete", "dtor_clear", "dtor_push"}

CtorPcs == {"ctor_wait", "ctor_blocked"}

Holds(t, o) == pc[t] \in HoldingPcs /\ _scratch[t] = o

Leased == {o \in Objs : \E t \in Threads : Holds(t, o)}

\* --------------------------------------------------------- pool: Init
InitPool ==
    /\ q = [i \in 1..NumObjs |-> i]
    /\ waiting = {}
    /\ pc = [t \in Threads |-> "idle"]
    /\ _scratch = [t \in Threads |-> nullptr]
    /\ local = nullptr
    /\ fill = [o \in Objs |-> 0]
    /\ deleted = [o \in Objs |-> 0]
    /\ waited = [t \in Threads |-> FALSE]
    /\ exc = [t \in Threads |-> FALSE]
    /\ quiet = FALSE
    /\ coord_idx = [o \in Objs |-> 0]
    /\ sector_idx = [o \in Objs |-> 0]
    /\ n_cmps = [t \in Threads |-> 0]
    /\ n_reads = [t \in Threads |-> 0]
    /\ advanced = {}

\* ------------------------------- ScratchStoreManager::ScratchStoreManager
\* the loop condition `_scratch == nullptr`
CtorLoop_Never(r) == FALSE

CtorLoop(r) == r = nullptr

AfterPop(r) == IF CtorLoop(r) THEN "ctor_wait" ELSE "use"

\* _scratch = query_scratch.pop();
Ctor_Pop(t) ==
    /\ pc[t] = "idle"
    /\ _scratch' = [_scratch EXCEPT ![t] = pop_result(q)]
    /\ q' = pop_rest(q)
    /\ pc' = [pc EXCEPT ![t] = AfterPop(pop_result(q))]
    /\ quiet' = (quiet /\ t = MainThread)
    /\ UNCHANGED <<waiting, local, fill, deleted, waited, exc, ssdVars, storeVars>>

\* query_scratch.wait_for_push_notify(): the caller suspends
Ctor_Wait(t) ==
    /\ pc[t] = "ctor_wait"
    /\ waiting' = waiting \cup {t}
    /\ pc' = [pc EXCEPT ![t] = "ctor_blocked"]
    /\ waited' = [waited EXCEPT ![t] = TRUE]
    /\ UNCHANGED <<q, _scratch, local, fill, deleted, exc, quiet, ssdVars, storeVars>>

\* the wait has returned; _scratch = query_scratch.pop();
Ctor_Retry(t) ==
    /\ pc[t] = "ctor_blocked"
    /\ t \notin waiting
    /\ _scratch' = [_scratch EXCEPT ![t] = pop_result(q)]
    /\ q' = pop_rest(q)
    /\ pc' = [pc EXCEPT ![t] = AfterPop(pop_result(q))]
    /\ UNCHANGED <<waiting, local, fill, deleted, waited, exc, quiet, ssdVars, storeVars>>

\* a waiter may wake without any push
SpuriousWake(t) ==
    /\ t \in waiting
    /\ waiting' = waiting \ {t}
    /\ UNCHANGED <<q, pc, _scratch, local, fill, deleted, waited, exc, quiet, ssdVars, storeVars>>

\* ------------------------------------------------- the holder of a lease
\* the holder inserts an entry into the object behind scratch_space()
Use(t) ==
    /\ pc[t] = "use"
    /\ fill[_scratch[t]] < MaxFill
    /\ fill' = [fill EXCEPT ![_scratch[t]] = @ + 1]
    /\ UNCHANGED <<q, waiting, pc, _scratch, local, deleted, waited, exc, quiet, ssdVars, storeVars>>

\* the scope of the manager ends normally
UseDone(t) ==
    /\ pc[t] = "use"
    /\ pc' = [pc EXCEPT ![t] = "dtor_clear"]
    /\ waited' = [waited EXCEPT ![t] = FALSE]
    /\ n_cmps' = [n_cmps EXCEPT ![t] = 0]
    /\ n_reads' = [n_reads EXCEPT ![t] = 0]
    /\ UNCHANGED <<q, waiting, _scratch, local, fill, deleted, exc, quiet,
                   coord_idx, sector_idx, advanced, storeVars>>

\* the use throws: stack unwinding runs the destructor of the manager
UseThrow(t) ==
    /\ pc[t] = "use"
    /\ exc' = [exc EXCEPT ![t] = TRUE]
    /\ pc' = [pc EXCEPT ![t] = "dtor_clear"]
    /\ waited' = [waited EXCEPT ![t] = FALSE]
    /\ n_cmps' = [n_cmps EXCEPT ![t] = 0]
    /\ n_reads' = [n_reads EXCEPT ![t] = 0]
    /\ UNCHANGED <<q, waiting, _scratch, local, fill, deleted, quiet,
                   coord_idx, sector_idx, advanced, storeVars>>

\* a search claims sub-buffers in runs of half the reserved capacity
ClaimRun(cap) == cap \div 2

\* the holder claims the next n coordinate sub-buffers: it reads coord_idx,
\* writes at coord_idx * stride and advances coord_idx; the caller keeps the
\* claims of one search within MAX_N_CMPS
ClaimCoord(t, n) ==
    /\ pc[t] = "use"
    /\ n_cmps[t] + n <= MAX_N_CMPS
    /\ coord_idx' = [coord_idx EXCEPT ![_scratch[t]] = @ + n]
    /\ n_cmps' = [n_cmps EXCEPT ![t] = @ + n]
    /\ advanced' = advanced \cup {_scratch[t]}
    /\ UNCHANGED <<poolVars, sector_idx, n_reads, storeVars>>

\* the holder claims the next n sector sub-buffers; the caller keeps the
\* sector reads of one search within MAX_N_SECTOR_READS
ClaimSector(t, n) ==
    /\ pc[t] = "use"
    /\ n_reads[t] + n <= MAX_N_SECTOR_READS
    /\ sector_idx' = [sector_idx EXCEPT ![_scratch[t]] = @ + n]
    /\ n_reads' = [n_reads EXCEPT ![t] = @ + n]
    /\ advanced' = advanced \cup {_scratch[t]}
    /\ UNCHANGED <<poolVars, coord_idx, n_cmps, storeVars>>

\* ------------------------------ ScratchStoreManager::~ScratchStoreManager
Dtor_Clear_Skip(t) ==
    /\ pc[t] = "dtor_clear"
    /\ pc' = [pc EXCEPT ![t] = "dtor_push"]
    /\ UNCHANGED <<q, waiting, _scratch, local, fill, deleted, waited, exc, quiet, ssdVars, storeVars>>

\* _scratch->clear();
Dtor_Clear(t) ==
    /\ pc[t] = "dtor_clear"
    /\ fill' = clear(fill, _scratch[t])
    /\ coord_idx' = reset(coord_idx, _scratch[t])
    /\ sector_idx' = reset(sector_idx, _scratch[t])
    /\ pc' = [pc EXCEPT ![t] = "dtor_push"]
    /\ UNCHANGED <<q, waiting, _scratch, local, deleted, waited, exc, quiet,
                   n_cmps, n_reads, advanced, storeVars>>

Dtor_Push_Twice(t) ==
    /\ pc[t] = "dtor_push"
    /\ q' = push(push(q, _scratch[t]), _scratch[t])
    /\ pc' = [pc EXCEPT ![t] = "dtor_notify"]
    /\ UNCHANGED <<waiting, _scratch, local, fill, deleted, waited, exc, quiet, ssdVars, storeVars>>

Dtor_Push_Skip(t) ==
    /\ pc[t] = "dtor_push"
    /\ pc' = [pc EXCEPT ![t] = "dtor_notify"]
    /\ UNCHANGED <<q, waiting, _scratch, local, fill, deleted, waited, exc, quiet, ssdVars, storeVars>>

Dtor_Push_UnlessExc(t) ==
    /\ pc[t] = "dtor_push"
    /\ q' = IF exc[t] THEN q ELSE push(q, _scratch[t])
    /\ pc' = [pc EXCEPT ![t] = "dtor_notify"]
    /\ UNCHANGED <<waiting, _scratch, local, fill, deleted, waited, exc, quiet, ssdVars, storeVars>>

\* _scratch_pool.push(_scratch);
Dtor_Push(t) ==
    /\ pc[t] = "dtor_push"
    /\ q' = push(q, _scratch[t])
    /\ pc' = [pc EXCEPT ![t] = "dtor_notify"]
    /\ UNCHANGED <<waiting, _scratch, local, fill, deleted, waited, exc, quiet, ssdVars, storeVars>>

\* _scratch_pool.push_notify_all(); the manager is gone afterwards
Dtor_Notify(t) ==
    /\ pc[t] = "dtor_notify"
    /\ waiting' = {}
    /\ pc' = [pc EXCEPT ![t] = IF t = MainThread THEN "finished" ELSE "idle"]
    /\ _scratch' = [_scratch EXCEPT ![t] = nullptr]
    /\ exc' = [exc EXCEPT ![t] = FALSE]
    /\ UNCHANGED <<q, local, fill, deleted, waited, quiet, ssdVars, storeVars>>

\* ------------------------------------------ ScratchStoreManager::destroy
\* manager.destroy() is called on the constructed manager
Destroy_Call(t) ==
    /\ pc[t] = "use"
    /\ pc' = [pc EXCEPT ![t] = "destroy_check"]
    /\ quiet' = \A w \in Workers : pc[w] = "idle"
    /\ waited' = [waited EXCEPT ![t] = FALSE]
    /\ UNCHANGED <<q, waiting, _scratch, local, fill, deleted, exc, ssdVars, storeVars>>

\* while (!_scratch_pool.empty())
Destroy_Check(t) ==
    /\ pc[t] = "destroy_check"
    /\ pc' = [pc EXCEPT ![t] = IF empty(q) THEN "dtor_clear" ELSE "destroy_pop"]
    /\ UNCHANGED <<q, waiting, _scratch, local, fill, deleted, waited, exc, quiet, ssdVars, storeVars>>

\* auto scratch = _scratch_pool.pop();
Destroy_Pop(t) ==
    /\ pc[t] = "destroy_pop"
    /\ local' = pop_result(q)
    /\ q' = pop_rest(q)
    /\ pc' = [pc EXCEPT ![t] = IF pop_result(q) = nullptr THEN "destroy_wait"
                                                         ELSE "destroy_delete"]
    /\ UNCHANGED <<waiting, _scratch, fill, deleted, waited, exc, quiet, ssdVars, storeVars>>

\* _scratch_pool.wait_for_push_notify();
Destroy_Wait(t) ==
    /\ pc[t] = "destroy_wait"
    /\ waiting' = waiting \cup {t}
    /\ pc' = [pc EXCEPT ![t] = "destroy_blocked"]
    /\ UNCHANGED <<q, _scratch, local, fill, deleted, waited, exc, quiet, ssdVars, storeVars>>

\* the wait has returned; scratch = _scratch_pool.pop();
Destroy_Retry(t) ==
    /\ pc[t] = "destroy_blocked"
    /\ t \notin waiting
    /\ local' = pop_result(q)
    /\ q' = pop_rest(q)
    /\ pc' = [pc EXCEPT ![t] = IF pop_result(q) = nullptr THEN "destroy_wait"
                                                         ELSE "destroy_delete"]
    /\ UNCHANGED <<waiting, _scratch, fill, deleted, waited, exc, quiet, ssdVars, storeVars>>

\* a destroy() that deletes the object its own manager holds
Destroy_Delete_Held(t) ==
    /\ pc[t] = "destroy_delete"
    /\ deleted' = [deleted EXCEPT ![_scratch[t]] = @ + 1]
    /\ local' = nullptr
    /\ pc' = [pc EXCEPT ![t] = "destroy_check"]
    /\ UNCHANGED <<q, waiting, _scratch, fill, waited, exc, quiet, ssdVars, storeVars>>

\* delete scratch;
Destroy_Delete(t) ==
    /\ pc[t] = "destroy_delete"
    /\ deleted' = [deleted EXCEPT ![local] = @ + 1]
    /\ local' = nullptr
    /\ pc' = [pc EXCEPT ![t] = "destroy_check"]
    /\ UNCHANGED <<q, waiting, _scratch, fill, waited, exc, quiet, ssdVars, storeVars>>

\* ================================================================ store
\* dimensions a store is configured with / a file records
Dims == {5, 8, 9}

\* a vector file: header (num_points, dim) and num_points x dim components
Files == {[exists |-> FALSE, npts |-> 0, dim |-> 0]} \cup
         {[exists |-> TRUE, npts |-> n, dim |-> d] : n \in 0..MaxFilePts, d \in Dims}

\* component j of point i of file f
FileVal(f, i, j) == 1 + ((f.npts + i + j) % MaxVal)

\* the vectors passed to set_vector
Vectors(d) == {[j \in 0..(d - 1) |-> (c + j) % (MaxVal + 1)] : c \in 0..MaxVal}

\* #define ROUND_UP(X, Y)
ROUND_UP(X, Y) == ((X \div Y) + (IF X % Y # 0 THEN 1 ELSE 0)) * Y

\* alloc_aligned without the memset: the block keeps what memory held
ZeroBlock_NoMemset(n) == [k \in 0..(n - 1) |-> 1]

\* alloc_aligned + memset(_data, 0, ...): a zeroed block of n components
ZeroBlock(n) == [k \in 0..(n - 1) |-> 0]

BlockLen(d) == Cardinality(DOMAIN d)

\* a constructor that rounds nothing up: slots of dim components
Construct_Unaligned(max_pts, dim) ==
    /\ _dim = dim
    /\ _max_points = max_pts
    /\ _aligned_dim = dim
    /\ _data = ZeroBlock(max_pts * dim)
    /\ frees = 0
    /\ _empty_slots = {}
    /\ ub = FALSE
    /\ st = "ready"
    /\ last = [op |-> "construct", arg |-> <<max_pts, dim>>, result |-> "ok"]

\* InMemDataStore::InMemDataStore(max_pts, dim, distance_metric)
Construct(max_pts, dim) ==
    /\ _dim = dim
    /\ _max_points = max_pts
    /\ _aligned_dim = ROUND_UP(dim, 8)
    /\ _data = ZeroBlock(max_pts * ROUND_UP(dim, 8))
    /\ frees = 0
    /\ _empty_slots = {}
    /\ ub = FALSE
    /\ st = "ready"
    /\ last = [op |-> "construct", arg |-> <<max_pts, dim>>, result |-> "ok"]

\* aligned_free(_data): _data keeps pointing at the released block
aligned_free(n) == IF n < 2 THEN n + 1 ELSE n

\* releasing a block that is already released is undefined: the allocator
\* aborts the process, or the call returns
FreeOutcomes == IF frees = 0 THEN {"ready"} ELSE {"ready", "crashed"}

\* if (file_num_points > this->get_max_points())
NeedsResize_OffByOne(n, cap) == n > cap + 1

NeedsResize(n, cap) == n > cap

\* resize(new_num_points): a block of new_num_points slots that keeps the old
\* contents; the old block is released
resize(d, n, adim) == [k \in 0..(n * adim - 1) |-> IF k \in DOMAIN d THEN d[k] ELSE 0]

\* copy_aligned_data_from_file: point i goes to slot i, its padding is zeroed
copy_aligned_data_from_file(d, f, adim) ==
    [k \in DOMAIN d |->
        IF k < f.npts * adim
        THEN IF k % adim < f.dim THEN FileVal(f, k \div adim, k % adim) ELSE 0
        ELSE d[k]]

\* load_data, file absent: release the buffer and throw
load_absent_nofree(f) ==
    /\ ~f.exists
    /\ st' = "ready"
    /\ last' = [op |-> "load", arg |-> f, result |-> "ANNException"]
    /\ UNCHANGED <<_dim, _max_points, _aligned_dim, _data, frees, _empty_slots, ub, poolVars, ssdVars>>

load_absent(f) ==
    /\ ~f.exists
    /\ \E out \in FreeOutcomes :
          /\ st' = out
          /\ last' = [op |-> "load", arg |-> f,
                      result |-> IF out = "crashed" THEN "crash" ELSE "ANNException"]
    /\ frees' = aligned_free(frees)
    /\ ub' = (ub \/ frees > 0)
    /\ UNCHANGED <<_dim, _max_points, _aligned_dim, _data, _empty_slots, poolVars, ssdVars>>

\* load_data, recorded dimension differs: clear _empty_slots, release the
\* buffer and throw
load_mismatch_nofree(f) ==
    /\ f.exists /\ f.dim # _dim
    /\ _empty_slots' = {}
    /\ st' = "ready"
    /\ last' = [op |-> "load", arg |-> f, result |-> "ANNException"]
    /\ UNCHANGED <<_dim, _max_points, _aligned_dim, _data, frees, ub, poolVars, ssdVars>>

load_mismatch(f) ==
    /\ f.exists /\ f.dim # _dim
    /\ _empty_slots' = {}
    /\ \E out \in FreeOutcomes :
          /\ st' = out
          /\ last' = [op |-> "load", arg |-> f,
                      result |-> IF out = "crashed" THEN "crash" ELSE "ANNException"]
    /\ frees' = aligned_free(frees)
    /\ ub' = (ub \/ frees > 0)
    /\ UNCHANGED <<_dim, _max_points, _aligned_dim, _data, poolVars, ssdVars>>

\* using a released block is undefined: the process aborts, or the access
\* goes through
UseOutcomes == IF frees = 0 THEN {"copying"} ELSE {"copying", "crashed"}

\* load_data, dimension matches: clear _empty_slots and resize if the file
\* holds more points than the store
load_prepare(f) ==
    /\ f.exists /\ f.dim = _dim
    /\ _empty_slots' = {}
    /\ IF NeedsResize(f.npts, _max_points)
       THEN \E out \in UseOutcomes :
               /\ st' = out
               /\ last' = [op |-> "load", arg |-> f,
                           result |-> IF out = "crashed" THEN "crash" ELSE "pending"]
               /\ IF out = "copying"
                  THEN /\ _data' = resize(_data, f.npts, _aligned_dim)
                       /\ _max_points' = f.npts
                       /\ frees' = 0
                  ELSE UNCHANGED <<_data, _max_points, frees>>
               /\ ub' = (ub \/ frees > 0)
       ELSE /\ st' = "copying"
            /\ last' = [op |-> "load", arg |-> f, result |-> "pending"]
            /\ UNCHANGED <<_data, _max_points, frees, ub>>
    /\ UNCHANGED <<_dim, _aligned_dim, poolVars, ssdVars>>

\* location_t InMemDataStore::load_data(const std::string &filename), up to
\* the call of copy_aligned_data_from_file
load_data(f) ==
    /\ st = "ready"
    /\ \/ load_absent(f)
       \/ load_mismatch(f)
       \/ load_prepare(f)

\* copy_aligned_data_from_file(...); return file_num_points;
load_copy ==
    /\ st = "copying"
    /\ \E out \in IF frees = 0 THEN {"ready"} ELSE {"ready", "crashed"} :
          /\ st' = out
          /\ last' = [last EXCEPT !.result = IF out = "crashed" THEN "crash" ELSE "ok"]
    /\ _data' = copy_aligned_data_from_file(_data, last.arg, _aligned_dim)
    /\ ub' = (ub \/ frees > 0)
    /\ UNCHANGED <<_dim, _max_points, _aligned_dim, frees, _empty_slots, poolVars, ssdVars>>

\* data_t *InMemDataStore::get_vector(location_t i): offset of slot i
get_vector(i) == i * _aligned_dim

\* the components behind the pointer get_vector(i) returns
VectorAt(d, i) == [j \in 0..(_aligned_dim - 1) |-> d[get_vector(i) + j]]

\* a caller reads slot i of a usable store
get_vector_call(i) ==
    /\ st = "ready" /\ frees = 0 /\ ~ub
    /\ i \in 0..(_max_points - 1)
    /\ last' = [op |-> "get", arg |-> i, result |-> VectorAt(_data, i)]
    /\ UNCHANGED <<_dim, _max_points, _aligned_dim, _data, frees, _empty_slots, ub, st, poolVars, ssdVars>>

\* a copy to _data + loc * _dim: slots addressed with the unpadded width
set_vector_data_DimStride(d, loc, v) ==
    [k \in DOMAIN d |->
        IF k >= loc * _dim /\ k < loc * _dim + _dim
        THEN v[k - loc * _dim] ELSE d[k]]

\* a copy that starts one component late: _data + loc * _aligned_dim + 1
set_vector_data_Shifted(d, loc, v) ==
    [k \in DOMAIN d |->
        IF k >= loc * _aligned_dim + 1 /\ k < loc * _aligned_dim + 1 + _dim
        THEN v[k - loc * _aligned_dim - 1] ELSE d[k]]

\* memcpy(_data + loc * _aligned_dim, vector, this->_dim * sizeof(data_t))
set_vector_data(d, loc, v) ==
    [k \in DOMAIN d |->
        IF k >= loc * _aligned_dim /\ k < loc * _aligned_dim + _dim
        THEN v[k - loc * _aligned_dim] ELSE d[k]]

\* void InMemDataStore::set_vector(const location_t loc, const data_t *vector)
set_vector(loc, v) ==
    /\ st = "ready" /\ frees = 0 /\ ~ub
    /\ loc \in 0..(_max_points - 1)
    /\ _data' = set_vector_data(_data, loc, v)
    /\ last' = [op |-> "set", arg |-> <<loc, v>>, result |-> "ok"]
    /\ UNCHANGED <<_dim, _max_points, _aligned_dim, frees, _empty_slots, ub, st, poolVars, ssdVars>>

\* InMemDataStore::~InMemDataStore(): if (_data != nullptr) aligned_free(_data)
Destructor ==
    /\ st = "ready"
    /\ \E out \in IF frees = 0 THEN {"destroyed"} ELSE {"destroyed", "crashed"} :
          /\ st' = out
          /\ last' = [op |-> "destruct", arg |-> <<>>,
                      result |-> IF out = "crashed" THEN "crash" ELSE "ok"]
    /\ frees' = aligned_free(frees)
    /\ ub' = (ub \/ frees > 0)
    /\ UNCHANGED <<_dim, _max_points, _aligned_dim, _data, _empty_slots, poolVars, ssdVars>>

\* ======================================================= specifications
\* the store the pool specifications carry along untouched
InitStoreIdle == Construct(1, 8)

InitStore == \E m \in 1..MaxPts : \E d \in Dims : Construct(m, d)

Init == InitPool /\ InitStoreIdle

WorkerStep(t) ==
    \/ Ctor_Pop(t) \/ Ctor_Wait(t) \/ Ctor_Retry(t) \/ SpuriousWake(t)
    \/ Use(t) \/ UseDone(t) \/ UseThrow(t)
    \/ Dtor_Clear(t) \/ Dtor_Push(t) \/ Dtor_Notify(t)

MainStep(t) ==
    \/ Ctor_Pop(t) \/ Ctor_Wait(t) \/ Ctor_Retry(t) \/ SpuriousWake(t)
    \/ Destroy_Call(t) \/ Destroy_Check(t) \/ Destroy_Pop(t) \/ Destroy_Wait(t)
    \/ Destroy_Retry(t) \/ Destroy_Delete(t)
    \/ Dtor_Clear(t) \/ Dtor_Push(t) \/ Dtor_Notify(t)

\* steady state: workers lease and release, nobody calls destroy()
Next == \E t \in Workers : WorkerStep(t)

Spec == Init /\ [][Next]_vars

\* shutdown: the main thread builds a manager and calls destroy() on it, at
\* any time, while K workers lease and release
ShutdownWorkers == 1..NumObjs

NextShutdown ==
    \/ \E t \in ShutdownWorkers : WorkerStep(t)
    \/ MainStep(MainThread)

SpecShutdown == Init /\ [][NextShutdown]_vars

\* the vector store, used from one thread
NextStore ==
    \/ \E f \in Files : load_data(f)
    \/ load_copy
    \/ \E i \in 0..MaxFilePts : get_vector_call(i)
    \/ \E i \in 0..MaxFilePts : \E v \in Vectors(_dim) : set_vector(i, v)
    \/ Destructor

InitWithStore == InitPool /\ InitStore

SpecStore == InitWithStore /\ [][NextStore]_vars

\* disk searches: every worker leases a working set, claims sub-buffers and
\* returns it; there are as many working sets as workers
SSDWorkers == 1..NumObjs

SearchStep(t) ==
    \/ Ctor_Pop(t)
    \/ ClaimCoord(t, ClaimRun(MAX_N_CMPS))
    \/ ClaimSector(t, ClaimRun(MAX_N_SECTOR_READS))
    \/ UseDone(t) \/ UseThrow(t)
    \/ Dtor_Clear(t) \/ Dtor_Push(t) \/ Dtor_Notify(t)

NextSSD == \E t \in SSDWorkers : SearchStep(t)

SpecSSD == Init /\ [][NextSSD]_vars

\* a store that is constructed and then only read and written vector by vector
InitVectors ==
    /\ InitPool
    /\ \E m \in 1..(MaxPts + 1) : \E d \in 1..MaxDim : Construct(m, d)

NextVectors ==
    \/ \E i \in 0..MaxPts : get_vector_call(i)
    \/ \E loc \in 0..MaxPts : \E v \in Vectors(_dim) : set_vector(loc, v)

SpecVectors == InitVectors /\ [][NextVectors]_vars

\* steady state under the scheduler: a thread that can take the next step of
\* a constructor, a destructor or of leaving its scope takes it; starting a
\* new lease is up to the caller, and no wait is owed a spurious wake-up
Progress(t) ==
    \/ Ctor_Wait(t) \/ Ctor_Retry(t) \/ UseDone(t)
    \/ Dtor_Clear(t) \/ Dtor_Push(t) \/ Dtor_Notify(t)

SpecFair == Init /\ [][Next]_vars /\ \A t \in Workers : WF_vars(Progress(t))

\* =============================================================== claims
Holders == {t \in Threads : pc[t] \in HoldingPcs}

Count(o) == Cardinality({i \in 1..Len(q) : q[i] = o})

\* C1: no scratch object is leased to two threads at the same time
C1_ExclusiveLease ==
    \A t, u \in Threads : \A o \in Objs : Holds(t, o) /\ Holds(u, o) => t = u

\* two leases are held at once, one of them on an object that went through
\* the pool again after the pool had run dry
C1_Witness ==
    \E t, u \in Workers :
        /\ t # u /\ pc[t] = "use" /\ pc[u] = "use"
        /\ waited[u] /\ _scratch[t] # _scratch[u]

\* C2: without destroy(), pooled and leased objects are disjoint, free of
\* duplicates and together exactly the K pre-warmed objects; at most K leases
\* are held at once
C2_Conservation ==
    /\ \A o \in Objs : Count(o) <= 1
    /\ SeqToSet(q) \cap Leased = {}
    /\ SeqToSet(q) \cup Leased = Objs
    /\ Cardinality(Holders) = Cardinality(Leased)
    /\ Cardinality(Holders) <= NumObjs
    /\ \A o \in Objs : deleted[o] = 0

\* all K objects are leased, the pool is empty and a further thread waits
C2_Witness ==
    /\ Cardinality(Holders) = NumObjs
    /\ q = <<>>
    /\ \E t \in Workers : pc[t] = "ctor_blocked"

\* C3: whenever a constructor obtains an object, the object is empty
C3_AcquiredEmpty ==
    [][\A t \in Threads :
          (pc[t] # "use" /\ pc'[t] = "use") => fill'[_scratch'[t]] = 0]_vars

\* a thread has just obtained an object that came back to the pool, while
\* another holder has filled its own
C3_Witness ==
    \E t, u \in Workers :
        /\ pc[t] = "use" /\ waited[t] /\ fill[_scratch[t]] = 0
        /\ pc[u] = "use" /\ fill[_scratch[u]] = MaxFill

\* C4: a thread in the pop / wait loop of the constructor does not stay there
\* forever while an object stays in the pool
C4_EventuallyObtains ==
    \A t \in Workers :
        (pc[t] \in CtorPcs /\ q # <<>>) ~> (pc[t] \notin CtorPcs \/ q = <<>>)

\* C5: on either exit, normal or by exception, the destructor runs: the
\* object is cleared and pushed back exactly once, every waiter is notified,
\* and with no lease left the pool holds all K objects again
C5_StepReturns ==
    \A t \in Threads :
        /\ (pc[t] = "use" /\ pc'[t] \notin {"use", "destroy_check"})
              => pc'[t] = "dtor_clear"
        /\ (pc[t] = "dtor_push" /\ pc'[t] # "dtor_push")
              => /\ Count(_scratch[t]) = 0
                 /\ Cardinality({i \in 1..Len(q') : q'[i] = _scratch[t]}) = 1
                 /\ fill'[_scratch[t]] = 0
        /\ (pc[t] = "dtor_notify" /\ pc'[t] # "dtor_notify") => waiting' = {}

C5_EveryExitReturns ==
    /\ [][C5_StepReturns]_vars
    /\ []((\A t \in Threads : pc[t] = "idle") => (SeqToSet(q) = Objs /\ Len(q) = NumObjs))

\* a use was left by an exception and the object is back in the pool, empty
C5_Witness ==
    \E t \in Workers :
        /\ exc[t] /\ pc[t] = "dtor_notify"
        /\ Count(_scratch[t]) = 1 /\ fill[_scratch[t]] = 0

\* C6: destroy() called with no lease outstanding or pending frees every
\* object once; after the manager is gone, nothing is un-freed or pooled
C6_DestroyFreesAll ==
    (pc[MainThread] = "finished" /\ quiet)
        => (q = <<>> /\ \A o \in Objs : deleted[o] = 1)

\* C7: a constructed manager holds a non-null pooled object
C7_NeverNull ==
    \A t \in Threads : pc[t] \in HoldingPcs => _scratch[t] \in Objs

\* a constructor that found the pool empty has waited and returned with an
\* object, while another one is still suspended on the empty pool
C7_Witness ==
    \E t, u \in Workers :
        /\ waited[t] /\ pc[t] = "use" /\ _scratch[t] \in Objs
        /\ pc[u] = "ctor_blocked" /\ u \in waiting /\ q = <<>>

\* a load_data call on a store whose buffer is allocated throws
LoadThrows(f) ==
    /\ st = "ready" /\ frees = 0 /\ ~ub
    /\ last'.op = "load" /\ last'.arg = f
    /\ st' # "copying"

\* C8: load() of a file whose recorded dimension differs throws to the
\* caller, copies nothing and leaves the buffer released
C8_MismatchReleases ==
    [][\A f \in Files :
          (LoadThrows(f) /\ f.exists /\ f.dim # _dim)
              => /\ last'.result = "ANNException" /\ st' = "ready"
                 /\ _data' = _data
                 /\ frees' = 1 /\ ~ub']_vars

\* a store holding vectors was asked to load a file of another dimension
C8_Witness ==
    /\ last.op = "load" /\ last.arg.exists /\ last.arg.dim # _dim
    /\ last.result = "ANNException" /\ frees = 1
    /\ \E k \in DOMAIN _data : _data[k] # 0

\* C9 as stated: load() of an absent file leaves the buffer allocated and the
\* store exactly as it was
C9_AbsentLeavesStoreIntact ==
    [][\A f \in Files :
          (LoadThrows(f) /\ ~f.exists)
              => /\ last'.result = "ANNException"
                 /\ frees' = 0
                 /\ UNCHANGED <<_dim, _max_points, _aligned_dim, _data, _empty_slots, ub, st>>]_vars

\* C9 amended: load() of an absent file throws before anything is read or
\* copied, dimension and capacity stay, but the buffer is released
C9_AbsentReleases ==
    [][\A f \in Files :
          (LoadThrows(f) /\ ~f.exists)
              => /\ last'.result = "ANNException" /\ st' = "ready"
                 /\ frees' = 1
                 /\ UNCHANGED <<_dim, _max_points, _aligned_dim, _data, _empty_slots, ub>>]_vars

\* a store holding vectors was asked to load a file that does not exist
C9_Witness ==
    /\ last.op = "load" /\ ~last.arg.exists
    /\ last.result = "ANNException" /\ frees = 1
    /\ \E k \in DOMAIN _data : _data[k] # 0

\* the load in progress found more points in the file than the store held:
\* the store is resized and nothing is copied yet
C10_StepResizes ==
    \A f \in Files :
        (st = "ready" /\ frees = 0 /\ ~ub /\ st' = "copying" /\ last'.arg = f
            /\ f.npts > _max_points)
            => /\ _max_points' >= f.npts
               /\ BlockLen(_data') >= f.npts * _aligned_dim
               /\ \A k \in DOMAIN _data : _data'[k] = _data[k]
               /\ frees' = 0 /\ ~ub'

\* every point of the file just loaded into an allocated block lies inside
\* the block and reads back
C10_Loaded ==
    (st = "ready" /\ frees = 0 /\ ~ub /\ last.op = "load" /\ last.result = "ok")
        => \A i \in 0..(last.arg.npts - 1) :
              /\ i < _max_points
              /\ get_vector(i) + _aligned_dim <= BlockLen(_data)
              /\ \A j \in 0..(_dim - 1) : VectorAt(_data, i)[j] = FileVal(last.arg, i, j)

\* C10: a load of more points than max_points resizes the store before any
\* vector is copied; afterwards every id below num_points is inside the
\* allocated block and get_vector returns the loaded vector
C10_ResizeBeforeCopy ==
    /\ [][C10_StepResizes]_vars
    /\ []((st = "copying" /\ frees = 0 /\ ~ub) =>
             /\ last.arg.npts <= _max_points
             /\ last.arg.npts * _aligned_dim <= BlockLen(_data))
    /\ []C10_Loaded

\* a file with more points than any store is constructed with was loaded
\* into a store whose buffer is allocated
C10_Witness ==
    /\ st = "ready" /\ frees = 0 /\ ~ub
    /\ last.op = "load" /\ last.result = "ok"
    /\ last.arg.npts > MaxPts /\ _max_points = last.arg.npts

\* the components at offsets [_dim, _aligned_dim) of every slot are zero
PaddingZero(d) ==
    \A k \in DOMAIN d : (k % _aligned_dim >= _dim) => d[k] = 0

\* a step of set_vector on a usable store
SetStep == st = "ready" /\ frees = 0 /\ ~ub /\ last'.op = "set"

\* C11: after set_vector(id, v) the first dim components get_vector(id)
\* points at equal v, and a set_vector on one id leaves the first dim
\* components of every other id as they were, so the round trip survives
\* any number of intervening writes to other ids
C11_StepRoundTrip ==
    SetStep =>
        LET loc == last'.arg[1]
            v == last'.arg[2]
        IN /\ \A j \in 0..(_dim - 1) : VectorAt(_data', loc)[j] = v[j]
           /\ \A i \in (0..(_max_points - 1)) \ {loc} : \A j \in 0..(_dim - 1) :
                 VectorAt(_data', i)[j] = VectorAt(_data, i)[j]

C11_RoundTrip == [][C11_StepRoundTrip]_vars

\* slot 1 was just written and reads back, next to a slot 0 that holds data
C11_Witness ==
    /\ st = "ready" /\ frees = 0 /\ ~ub
    /\ last.op = "set" /\ last.arg[1] = 1
    /\ _max_points >= 2 /\ _dim < _aligned_dim
    /\ \A j \in 0..(_dim - 1) : VectorAt(_data, 1)[j] = last.arg[2][j]
    /\ \E j \in 0..(_dim - 1) : VectorAt(_data, 1)[j] # 0
    /\ \E j \in 0..(_dim - 1) : VectorAt(_data, 0)[j] # 0

\* C12: on a store that was constructed and then only written with in-range
\* set_vector calls, every component at an offset in [dim, aligned_dim) of
\* every slot is zero
C12_PaddingAlwaysZero == PaddingZero(_data)

\* a padded slot was written with a vector that is not zero
C12_Witness ==
    /\ last.op = "set" /\ _dim < _aligned_dim
    /\ \A j \in 0..(_dim - 1) : VectorAt(_data, last.arg[1])[j] = last.arg[2][j]
    /\ VectorAt(_data, last.arg[1])[_dim - 1] # 0
    /\ PaddingZero(_data)

\* C13: aligned_dim is the smallest multiple of 8 that is at least dim
\* (5 gives 8, 8 gives 8, 9 gives 16), and the buffer the constructor
\* allocated holds exactly max_points * aligned_dim components
C13_AlignedDim ==
    /\ _aligned_dim % 8 = 0
    /\ _aligned_dim >= _dim
    /\ _aligned_dim - _dim < 8
    /\ (_dim = 5 => _aligned_dim = 8)
    /\ (_dim = 8 => _aligned_dim = 8)
    /\ (_dim = 9 => _aligned_dim = 16)
    /\ BlockLen(_data) = _max_points * _aligned_dim

\* a store of dimension 9 fresh from its constructor: two slots of 16
C13_Witness ==
    /\ last.op = "construct" /\ last.arg = <<2, 9>>
    /\ _aligned_dim = 16 /\ BlockLen(_data) = 32

\* C14: over any lifecycle (construct, any number of loads that succeed,
\* find no file or find another dimension, then destruction) the buffer is
\* released exactly once: never twice, and once when the store is destroyed
C14_ReleasedExactlyOnce ==
    /\ frees <= 1
    /\ (st = "destroyed" => frees = 1)

\* C17: a set_vector(loc, v) in range changes only the components [0, dim) of
\* slot loc: every other slot, the padding of slot loc, the dimension, the
\* aligned dimension and the capacity are as before
C17_StepWritesOnlySlot ==
    SetStep =>
        LET loc == last'.arg[1]
        IN /\ DOMAIN _data' = DOMAIN _data
           /\ \A k \in DOMAIN _data :
                 (k < get_vector(loc) \/ k >= get_vector(loc) + _dim)
                     => _data'[k] = _data[k]
           /\ UNCHANGED <<_dim, _aligned_dim, _max_points>>

C17_WritesOnlySlot == [][C17_StepWritesOnlySlot]_vars

\* slot 0 of a padded two-slot store was just written with a vector that is
\* not zero, and slot 1 holds data of its own
C17_Witness ==
    /\ st = "ready" /\ frees = 0 /\ ~ub
    /\ last.op = "set" /\ last.arg[1] = 0
    /\ _max_points >= 2 /\ _dim < _aligned_dim
    /\ last.arg[2][0] # 0 /\ last.arg[2][_dim - 1] # 0
    /\ \A j \in 0..(_dim - 1) : VectorAt(_data, 0)[j] = last.arg[2][j]
    /\ \E j \in 0..(_dim - 1) : VectorAt(_data, 1)[j] # 0

\* C18: destroy() frees only objects it has itself popped: the object it is
\* about to delete is held by no manager, and an object that was freed was
\* freed once, is not in the pool and is held by no manager (the one that
\* called destroy() included), so no lease holder and no destructor touches
\* a freed object
C18_DestroyFreesOnlyPopped ==
    /\ \A t \in Threads : pc[t] = "destroy_delete" =>
          /\ local \in Objs
          /\ local \notin SeqToSet(q)
          /\ local \notin Leased
    /\ \A o \in Objs : deleted[o] > 0 =>
          /\ deleted[o] = 1
          /\ o \notin SeqToSet(q)
          /\ o \notin Leased

\* destroy() has freed an object that a worker had returned, the manager
\* that called destroy() still holds its own, and a worker asks for a lease
C18_Witness ==
    /\ \E o \in Objs : deleted[o] = 1
    /\ pc[MainThread] \in {"destroy_check", "dtor_clear"}
    /\ _scratch[MainThread] \in Objs /\ deleted[_scratch[MainThread]] = 0
    /\ \E w \in Workers : pc[w] \in CtorPcs

\* C15: at the start of every lease of a disk working set both cursors are
\* zero, however far an earlier holder advanced them: a holder that has not
\* claimed anything yet finds coord_idx = 0 and sector_idx = 0, and every
\* pooled working set has both cursors at zero
C15_LeaseStartsAtZero ==
    /\ \A t \in Threads :
          (pc[t] = "use" /\ n_cmps[t] = 0 /\ n_reads[t] = 0) =>
              (coord_idx[_scratch[t]] = 0 /\ sector_idx[_scratch[t]] = 0)
    /\ \A o \in SeqToSet(q) : coord_idx[o] = 0 /\ sector_idx[o] = 0

\* a lease has just started on a working set that an earlier holder advanced
C15_Witness ==
    \E t \in Threads :
        /\ pc[t] = "use" /\ n_cmps[t] = 0 /\ n_reads[t] = 0
        /\ _scratch[t] \in advanced
        /\ coord_idx[_scratch[t]] = 0 /\ sector_idx[_scratch[t]] = 0

\* C16: within one search on a leased disk working set the cursors stay
\* within the reserved capacity: coord_idx <= MAX_N_CMPS and
\* sector_idx <= MAX_N_SECTOR_READS in every reachable state
C16_CursorsWithinCapacity ==
    \A o \in Objs :
        /\ coord_idx[o] <= MAX_N_CMPS
        /\ sector_idx[o] <= MAX_N_SECTOR_READS

\* a search has used up both buffers of its working set
C16_Witness ==
    \E t \in Threads :
        /\ pc[t] = "use"
        /\ coord_idx[_scratch[t]] = MAX_N_CMPS
        /\ sector_idx[_scratch[t]] = MAX_N_SECTOR_READS

====
